---------------------------- MODULE Spec2Model ----------------------------
(***************************************************************************)
(* repo-sync: a local mirror clone of a public repository is compared with *)
(* a private destination and mirror-pushed to it.  The model covers        *)
(* sync.ts (pull, status, push, clean) and git.ts (compareRefs, the ref    *)
(* inventories, the ancestry queries and the git commands they run).       *)
(*                                                                         *)
(* Commits are numbers.  1..MaxCommit are commits of the public history,   *)
(* arranged as a binary tree (the parent of c is c \div 2, 1 is the root). *)
(* MaxCommit + c is a commit on top of public commit c that the public     *)
(* history does not have: the "source notice" commit of addSourceNotice.   *)
(* So with two public commits, 2 and 3 are two diverged children of 1.     *)
(* A reference name is the tuple of its '/'-separated segments, e.g.       *)
(* <<"heads", "feature", "a">> for "heads/feature/a".                      *)
(***************************************************************************)
EXTENDS Integers, Sequences, FiniteSets, TLC

MaxCommit == 2

MaxRepos == 2

null == 0

BaseCommits == 1..MaxCommit

NoticeOf(c) == MaxCommit + c

IsNotice(c) == c > MaxCommit

Commits == 1..(2 * MaxCommit)

Parent(c) == IF IsNotice(c) THEN c - MaxCommit ELSE c \div 2

RECURSIVE Anc(_)
Anc(c) == IF c = 1 THEN {1} ELSE {c} \cup Anc(Parent(c))

Closure(S) == UNION {Anc(c) : c \in S}

(***************************************************************************)
(* Reference names and inventories (Map<string, string>).                  *)
(***************************************************************************)
\* the order in which git for-each-ref lists references (and so the insertion
\* order of the inventories): branches sorted by name, then tags
RefOrder ==
  << <<"heads", "feature", "a">>, <<"heads", "feature", "b">>,
     <<"heads", "main">>, <<"tags", "v1">> >>

SeqRange(s) == {s[i] : i \in 1..Len(s)}

\* the references and commits compareRefs is exercised on
CmpRefNames ==
  {<<"heads", "feature", "a">>, <<"heads", "feature", "b">>, <<"tags", "v1">>}

CmpCommits == 1..(MaxCommit + 2)

\* the references of the modelled repository
RefNames == {<<"heads", "main">>, <<"tags", "v1">>}

HeadNames == {n \in RefNames : n[1] = "heads"}

TagNames == {n \in RefNames : n[1] = "tags"}

Inventories(names, commits) ==
  UNION {[D -> commits] : D \in SUBSET names}

EmptyMap == [n \in {} |-> null]

Has(m, k) == k \in DOMAIN m

GetOrNull(m, k) == IF k \in DOMAIN m THEN m[k] ELSE null

Entries(m) == SelectSeq(RefOrder, LAMBDA n : n \in DOMAIN m)

Range(m) == {m[n] : n \in DOMAIN m}

Restrict(m, D) == [n \in (DOMAIN m) \cap D |-> m[n]]

(***************************************************************************)
(* git.ts: ancestry oracle.  odb is the set of commits present in the      *)
(* object database of the local mirror; a query naming an absent commit    *)
(* exits with an error, which exec turns into success = false.  The clone  *)
(* always has the commits its refs reach; whether it has any other commit  *)
(* (left from earlier fetches, or pruned by git gc) is an input of the     *)
(* operation that asks.                                                    *)
(***************************************************************************)
\* an ancestry test that is true as soon as the two commits share history
isAncestor_MergeBaseExists(odb, ancestor, descendant) ==
  /\ ancestor \in odb
  /\ descendant \in odb
  /\ Anc(ancestor) \cap Anc(descendant) # {}

\* git merge-base --is-ancestor: exit 0 iff ancestor is reachable from
\* descendant; exit 1 if not, exit 128 if a commit is absent
isAncestor(odb, ancestor, descendant) ==
  /\ ancestor \in odb
  /\ descendant \in odb
  /\ ancestor \in Anc(descendant)

\* a count that includes the commit it starts from
getCommitCount_Inclusive(odb, from, to) ==
  IF from \in odb /\ to \in odb
  THEN Cardinality(Anc(to) \ Anc(from)) + 1
  ELSE 0

\* git rev-list --count from..to: the commits reachable from to and not
\* from from; 0 when the command fails
getCommitCount(odb, from, to) ==
  IF from \in odb /\ to \in odb
  THEN Cardinality(Anc(to) \ Anc(from))
  ELSE 0

\* refName.split("/", 2): at most the first two segments
Split2(refName) == SubSeq(refName, 1, IF Len(refName) < 2 THEN Len(refName) ELSE 2)

ShortName(refName) == Split2(refName)[2]

IsTag(refName) == Split2(refName)[1] = "tags"

(***************************************************************************)
(* git.ts: compareRefs.                                                    *)
(***************************************************************************)
Statuses == {"same", "ahead", "behind", "diverged", "new", "missing"}

\* LocalRecord without the equal-commit case: the ancestry test decides
LocalRecord_NoSameCase(odb, refName, localSha, privateRefs) ==
  LET privateSha == GetOrNull(privateRefs, refName)
      name == ShortName(refName)
  IN  IF privateSha = null
      THEN [name |-> name, localRef |-> localSha, privateRef |-> null,
            status |-> "new"]
      ELSE IF isAncestor(odb, privateSha, localSha)
      THEN [name |-> name, localRef |-> localSha,
            privateRef |-> privateSha, status |-> "ahead",
            aheadCount |-> getCommitCount(odb, privateSha, localSha)]
      ELSE IF isAncestor(odb, localSha, privateSha)
      THEN [name |-> name, localRef |-> localSha,
            privateRef |-> privateSha, status |-> "behind",
            behindCount |-> getCommitCount(odb, localSha, privateSha)]
      ELSE [name |-> name, localRef |-> localSha,
            privateRef |-> privateSha, status |-> "diverged"]

\* LocalRecord that asks the behind count with the arguments of the ahead one
LocalRecord_BehindCountReversed(odb, refName, localSha, privateRefs) ==
  LET privateSha == GetOrNull(privateRefs, refName)
      name == ShortName(refName)
  IN  IF privateSha = null
      THEN [name |-> name, localRef |-> localSha, privateRef |-> null,
            status |-> "new"]
      ELSE IF localSha = privateSha
      THEN [name |-> name, localRef |-> localSha, privateRef |-> privateSha,
            status |-> "same"]
      ELSE IF isAncestor(odb, privateSha, localSha)
      THEN [name |-> name, localRef |-> localSha,
            privateRef |-> privateSha, status |-> "ahead",
            aheadCount |-> getCommitCount(odb, privateSha, localSha)]
      ELSE IF isAncestor(odb, localSha, privateSha)
      THEN [name |-> name, localRef |-> localSha,
            privateRef |-> privateSha, status |-> "behind",
            behindCount |-> getCommitCount(odb, privateSha, localSha)]
      ELSE [name |-> name, localRef |-> localSha,
            privateRef |-> privateSha, status |-> "diverged"]

\* body of the first loop: the record pushed for one local reference
LocalRecord(odb, refName, localSha, privateRefs) ==
  LET privateSha == GetOrNull(privateRefs, refName)
      name == ShortName(refName)
  IN  IF privateSha = null
      THEN [name |-> name, localRef |-> localSha, privateRef |-> null,
            status |-> "new"]
      ELSE IF localSha = privateSha
      THEN [name |-> name, localRef |-> localSha, privateRef |-> privateSha,
            status |-> "same"]
      ELSE LET localIsAncestor == isAncestor(odb, localSha, privateSha)
               privateIsAncestor == isAncestor(odb, privateSha, localSha)
           IN  IF privateIsAncestor
               THEN [name |-> name, localRef |-> localSha,
                     privateRef |-> privateSha, status |-> "ahead",
                     aheadCount |-> getCommitCount(odb, privateSha, localSha)]
               ELSE IF localIsAncestor
               THEN [name |-> name, localRef |-> localSha,
                     privateRef |-> privateSha, status |-> "behind",
                     behindCount |-> getCommitCount(odb, localSha, privateSha)]
               ELSE [name |-> name, localRef |-> localSha,
                     privateRef |-> privateSha, status |-> "diverged"]

\* MissingKeys without the localRefs.has test
MissingKeys_NoHasCheck(localRefs, privateRefs) == Entries(privateRefs)

\* the private references the second loop pushes a record for
MissingKeys(localRefs, privateRefs) ==
  SelectSeq(Entries(privateRefs), LAMBDA n : ~Has(localRefs, n))

\* MissingRecord with the status of the first loop's first case
MissingRecord_AsNew(refName, privateSha) ==
  [name |-> ShortName(refName), localRef |-> null, privateRef |-> privateSha,
   status |-> "new"]

\* body of the second loop
MissingRecord(refName, privateSha) ==
  [name |-> ShortName(refName), localRef |-> null, privateRef |-> privateSha,
   status |-> "missing"]

\* the records in the order they are pushed, each with its target list
Emitted(odb, localRefs, privateRefs) ==
  LET le == Entries(localRefs)
      pe == MissingKeys(localRefs, privateRefs)
  IN  [i \in 1..Len(le) |->
         [tag |-> IsTag(le[i]),
          rec |-> LocalRecord(odb, le[i], localRefs[le[i]], privateRefs)]]
      \o
      [i \in 1..Len(pe) |->
         [tag |-> IsTag(pe[i]),
          rec |-> MissingRecord(pe[i], privateRefs[pe[i]])]]

RecsOf(pairs) == [i \in 1..Len(pairs) |-> pairs[i].rec]

compareRefs(odb, localRefs, privateRefs) ==
  LET e == Emitted(odb, localRefs, privateRefs)
  IN  [branches |-> RecsOf(SelectSeq(e, LAMBDA p : ~p.tag)),
       tags |-> RecsOf(SelectSeq(e, LAMBDA p : p.tag))]

\* LocalQueries that asks the oracle for every reference private has
LocalQueries_AsksForSame(odb, refName, localSha, privateRefs) ==
  LET privateSha == GetOrNull(privateRefs, refName)
  IN  IF privateSha = null THEN <<>>
      ELSE << [fn |-> "isAncestor", ref |-> refName,
               from |-> localSha, to |-> privateSha],
              [fn |-> "isAncestor", ref |-> refName,
               from |-> privateSha, to |-> localSha] >>
           \o (IF isAncestor(odb, privateSha, localSha)
                  \/ isAncestor(odb, localSha, privateSha)
               THEN << [fn |-> "getCommitCount", ref |-> refName,
                        from |-> privateSha, to |-> localSha] >>
               ELSE <<>>)

\* body of the first loop: the git queries it runs for one local reference
LocalQueries(odb, refName, localSha, privateRefs) ==
  LET privateSha == GetOrNull(privateRefs, refName)
  IN  IF privateSha = null THEN <<>>
      ELSE IF localSha = privateSha THEN <<>>
      ELSE << [fn |-> "isAncestor", ref |-> refName,
               from |-> localSha, to |-> privateSha],
              [fn |-> "isAncestor", ref |-> refName,
               from |-> privateSha, to |-> localSha] >>
           \o (IF isAncestor(odb, privateSha, localSha)
               THEN << [fn |-> "getCommitCount", ref |-> refName,
                        from |-> privateSha, to |-> localSha] >>
               ELSE IF isAncestor(odb, localSha, privateSha)
               THEN << [fn |-> "getCommitCount", ref |-> refName,
                        from |-> localSha, to |-> privateSha] >>
               ELSE <<>>)

RECURSIVE QueriesFrom(_, _, _, _)
QueriesFrom(odb, names, localRefs, privateRefs) ==
  IF names = <<>> THEN <<>>
  ELSE LocalQueries(odb, Head(names), localRefs[Head(names)], privateRefs)
       \o QueriesFrom(odb, Tail(names), localRefs, privateRefs)

\* the git queries of one compareRefs call, in order; the second loop runs none
compareQueries(odb, localRefs, privateRefs) ==
  QueriesFrom(odb, Entries(localRefs), localRefs, privateRefs)

(***************************************************************************)
(* sync.ts: the verdict computed by status() from the records.             *)
(***************************************************************************)
MsgNotPulled == "Not pulled yet"

MsgBehind == "Private has commits not in public - this shouldn't happen"

MsgDiverged == "Refs have diverged - manual intervention may be needed"

AllRecords(cmp) == cmp.branches \o cmp.tags

SomeStatus(recs, S) == \E i \in 1..Len(recs) : recs[i].status \in S

hasBehindOf(cmp) == SomeStatus(AllRecords(cmp), {"behind"})

hasDivergedOf(cmp) == SomeStatus(AllRecords(cmp), {"diverged"})

\* hasChangesOf that forgets the missing records
hasChangesOf_IgnoresMissing(cmp) ==
  SomeStatus(AllRecords(cmp), {"ahead", "new"})

hasChangesOf(cmp) == SomeStatus(AllRecords(cmp), {"ahead", "new", "missing"})

\* canPushOf that forgets the diverged records
canPushOf_IgnoresDiverged(cmp) == ~hasBehindOf(cmp)

canPushOf(cmp) == ~hasBehindOf(cmp) /\ ~hasDivergedOf(cmp)

\* errorsOf with one message for each blocking record
errorsOf_PerRecord(cmp) ==
  LET recs == AllRecords(cmp)
      msg(r) == IF r.status = "behind" THEN MsgBehind ELSE MsgDiverged
      blocking == SelectSeq(recs, LAMBDA r : r.status \in {"behind", "diverged"})
  IN  [i \in 1..Len(blocking) |-> msg(blocking[i])]

\* errorsOf without the message for diverged records
errorsOf_OmitsDiverged(cmp) ==
  IF hasBehindOf(cmp) THEN <<MsgBehind>> ELSE <<>>

errorsOf(cmp) ==
  (IF hasBehindOf(cmp) THEN <<MsgBehind>> ELSE <<>>)
  \o (IF hasDivergedOf(cmp) THEN <<MsgDiverged>> ELSE <<>>)

\* the StatusResult of a pulled repository
PulledResult(cmp) ==
  [pulled |-> TRUE, branches |-> cmp.branches, tags |-> cmp.tags,
   canPush |-> canPushOf(cmp), hasChanges |-> hasChangesOf(cmp),
   errors |-> errorsOf(cmp)]

NotPulledResult ==
  [pulled |-> FALSE, branches |-> <<>>, tags |-> <<>>,
   canPush |-> FALSE, hasChanges |-> FALSE, errors |-> <<MsgNotPulled>>]

(***************************************************************************)
(* State.  One configured repository: its local mirror clone under the     *)
(* cache directory and its private destination.                            *)
(***************************************************************************)
VARIABLES
  exists,   \* repoExists(repoPath): the mirror clone is on disk
  remote,   \* the clone has a remote named "private"
  loc,      \* refs/heads/* and refs/tags/* of the clone
  trk,      \* refs/remotes/private/* of the clone, keyed by heads/<name>
  dst,      \* refs/heads/* and refs/tags/* of the private repository
  last,     \* the last operation and what it returned
  cmpIn,    \* arguments of a direct compareRefs call
  cmpOut,   \* its result and the verdict status() derives from it
  cfgIn,    \* the configuration file loadConfig is called on
  cfgOut,   \* what loadConfig returned or threw, and the paths of its repos
  cli       \* one run of the command line: its repositories, the cache
            \* directory, the position of the loop, the counters, the exit

vars ==
  <<exists, remote, loc, trk, dst, last, cmpIn, cmpOut, cfgIn, cfgOut, cli>>

pureVars == <<cmpIn, cmpOut, cfgIn, cfgOut, cli>>

sysVars == <<exists, remote, loc, trk, dst, last>>

DefaultBranch == <<"heads", "main">>

Unused == [unused |-> TRUE]

(***************************************************************************)
(* git.ts: the git commands, by their effect on the repositories.          *)
(***************************************************************************)
\* git clone --mirror / git fetch --prune origin (refspec +refs/*:refs/*):
\* every ref of the clone becomes the public one, all others are pruned,
\* the remote-tracking refs of "private" included
MirrorFromPublic(pubRefs) ==
  /\ loc' = pubRefs
  /\ trk' = EmptyMap

\* git fetch private (refspec +refs/heads/*:refs/remotes/private/*, no
\* --prune): tracking refs of branches the destination has are updated,
\* stale ones stay; tags of the destination that the clone lacks and whose
\* commit it now has are created in the clone (tag auto-following)
\* the commits of the clone: those its refs reach and, if lingering, the rest
odbOf(refs, tracking, lingering) ==
  Closure(Range(refs) \cup Range(tracking))
  \cup (IF lingering THEN Commits ELSE {})

fetchRemoteOdb(lingering) ==
  odbOf(loc, trk, lingering)
  \cup Closure({dst[n] : n \in DOMAIN dst \cap HeadNames})

fetchRemoteTrk ==
  [n \in DOMAIN trk \cup (DOMAIN dst \cap HeadNames) |->
     IF n \in DOMAIN dst THEN dst[n] ELSE trk[n]]

fetchRemoteLoc(lingering) ==
  LET followed == {t \in (DOMAIN dst \cap TagNames) \ DOMAIN loc :
                     dst[t] \in fetchRemoteOdb(lingering)}
  IN  [n \in DOMAIN loc \cup followed |->
         IF n \in DOMAIN loc THEN loc[n] ELSE dst[n]]

getLocalRefs(refs) == refs

\* branches from the remote-tracking refs, tags from git ls-remote --tags
getRemoteRefs(tracking, lsOk) ==
  LET tagsSeen == IF lsOk THEN DOMAIN dst \cap TagNames ELSE {}
  IN  [n \in DOMAIN tracking \cup tagsSeen |->
         IF n \in tagsSeen THEN dst[n] ELSE tracking[n]]

\* git push --mirror private, when it succeeds: the destination's branches
\* and tags become the clone's (created, force-updated, deleted), and git
\* updates the remote-tracking ref of every branch it pushed or deleted
\* a push that creates and updates but deletes nothing
pushMirrorDst_NoDelete(refs) ==
  [n \in DOMAIN dst \cup DOMAIN refs |->
     IF n \in DOMAIN refs THEN refs[n] ELSE dst[n]]

pushMirrorDst(refs) == refs

pushMirrorTrk(refs, tracking) ==
  LET pushed == DOMAIN refs \cap HeadNames
      deleted == (DOMAIN dst \cap HeadNames) \ DOMAIN refs
  IN  [n \in (DOMAIN tracking \cup pushed) \ deleted |->
         IF n \in pushed THEN refs[n] ELSE tracking[n]]

\* canAddNotice that lets git commit succeed on an unchanged README
canAddNotice_Always(refs) == DefaultBranch \in DOMAIN refs

\* addSourceNotice can commit only when the branch exists and its README
\* would change, i.e. the branch head is not already a notice commit
canAddNotice(refs) ==
  /\ DefaultBranch \in DOMAIN refs
  /\ ~IsNotice(refs[DefaultBranch])

(***************************************************************************)
(* sync.ts: pull, status, push, clean.  The outcome of every git command   *)
(* that talks to a remote is an input: it succeeds or fails.               *)
(***************************************************************************)
Init ==
  /\ exists = FALSE
  /\ remote = FALSE
  /\ loc = EmptyMap
  /\ trk = EmptyMap
  /\ dst = EmptyMap
  /\ last = [op |-> "init"]
  /\ cmpIn = Unused
  /\ cmpOut = Unused
  /\ cfgIn = Unused
  /\ cfgOut = Unused
  /\ cli = Unused

\* pull(repo); pubRefs is what the public repository holds at that moment
Pull(pubRefs, transferOk, remoteOk) ==
  /\ ~transferOk => pubRefs = EmptyMap /\ remoteOk
  /\ remote => remoteOk
  /\ UNCHANGED <<dst, pureVars>>
  /\ IF ~transferOk
     THEN /\ last' = [op |-> "pull", success |-> FALSE, isNew |-> ~exists,
                      error |-> IF exists THEN "Failed to fetch"
                                ELSE "Failed to clone"]
          /\ UNCHANGED <<exists, remote, loc, trk>>
     ELSE /\ exists' = TRUE
          /\ MirrorFromPublic(pubRefs)
          /\ IF remote \/ remoteOk
             THEN /\ remote' = TRUE
                  /\ last' = [op |-> "pull", success |-> TRUE,
                              isNew |-> ~exists]
             ELSE /\ remote' = FALSE
                  /\ last' = [op |-> "pull", success |-> FALSE,
                              isNew |-> ~exists,
                              error |-> "Failed to add private remote"]

\* the calls status() makes, in the order it makes them; each returns before
\* the next starts (execSync)
statusSteps(pulled) ==
  IF pulled
  THEN <<"repoExists", "getRepoCloneTime", "fetchRemote", "getLocalRefs",
         "getRemoteRefs", "compareRefs", "verdict">>
  ELSE <<"repoExists">>

\* the state of the clone after the fetch status() starts with
trkAfterFetch(fetchOk) == IF fetchOk THEN fetchRemoteTrk ELSE trk

locAfterFetch(fetchOk, lingering) ==
  IF fetchOk THEN fetchRemoteLoc(lingering) ELSE loc

odbAfterFetch(fetchOk, lingering) ==
  IF fetchOk THEN fetchRemoteOdb(lingering) ELSE odbOf(loc, trk, lingering)

\* statusOf that turns a failed fetch into a blocking error
statusOf_ReportsFetchFailure(fetchOk, lsOk, lingering) ==
  LET cmp == compareRefs(odbAfterFetch(fetchOk, lingering),
                         getLocalRefs(locAfterFetch(fetchOk, lingering)),
                         getRemoteRefs(trkAfterFetch(fetchOk), lsOk))
      res == PulledResult(cmp)
  IN  IF fetchOk THEN res
      ELSE [res EXCEPT !.canPush = FALSE,
                       !.errors = <<"Could not fetch from private">> \o @]

\* status(repo) on a pulled repository: a failed fetch is only logged
statusOf(fetchOk, lsOk, lingering) ==
  PulledResult(compareRefs(odbAfterFetch(fetchOk, lingering),
                           getLocalRefs(locAfterFetch(fetchOk, lingering)),
                           getRemoteRefs(trkAfterFetch(fetchOk), lsOk)))

Status(fetchOk, lsOk, lingering) ==
  /\ (fetchOk \/ lsOk \/ lingering) => exists
  /\ (fetchOk \/ lsOk) => remote
  /\ UNCHANGED <<exists, remote, dst, pureVars>>
  /\ IF ~exists
     THEN /\ last' = [op |-> "status", result |-> NotPulledResult,
                      fetchOk |-> FALSE, lsOk |-> FALSE,
                      steps |-> statusSteps(FALSE)]
          /\ UNCHANGED <<loc, trk>>
     ELSE /\ trk' = trkAfterFetch(fetchOk)
          /\ loc' = locAfterFetch(fetchOk, lingering)
          /\ last' = [op |-> "status",
                      result |-> statusOf(fetchOk, lsOk, lingering),
                      fetchOk |-> fetchOk, lsOk |-> lsOk,
                      steps |-> statusSteps(TRUE)]

\* pushGate without the hasChanges test
pushGate_SkipsChangeCheck(st) ==
  IF ~st.canPush THEN "blocked" ELSE "proceed"

\* pushGate that treats a status without changes as blocking
pushGate_NoChangesBlocked(st) ==
  IF ~st.canPush \/ ~st.hasChanges THEN "blocked" ELSE "proceed"

\* what push() does with the status it computed
pushGate(st) ==
  IF ~st.canPush THEN "blocked"
  ELSE IF ~st.hasChanges THEN "uptodate"
  ELSE "proceed"

NoStatus == [none |-> TRUE]

\* the separator of errors.join("; ")
Sep == "; "

\* joinErrors that keeps the first message only
joinErrors_FirstOnly(errors) ==
  IF errors = <<>> THEN <<>> ELSE <<errors[1]>>

\* statusResult.errors.join("; "): a string is the sequence of its pieces
joinErrors(errors) ==
  IF errors = <<>> THEN <<>>
  ELSE [i \in 1..(2 * Len(errors) - 1) |->
          IF i % 2 = 1 THEN errors[(i + 1) \div 2] ELSE Sep]

\* the calls push() makes, in order, given how far it gets
pushSteps(pulled, markSource, gate, noticeOk) ==
  <<"repoExists">>
  \o (IF ~pulled THEN <<>>
      ELSE IF ~markSource
      THEN statusSteps(TRUE)
           \o (IF gate = "proceed" THEN <<"pushMirror">> ELSE <<>>)
      ELSE <<"getDefaultBranch", "addSourceNotice">>
           \o (IF noticeOk THEN <<"pushMirror">> ELSE <<>>))

PushNotPulled ==
  /\ ~exists
  /\ last' = [op |-> "push", success |-> FALSE, pushed |-> FALSE,
              error |-> <<"Not pulled yet. Run 'repo-sync pull' first.">>,
              markSource |-> FALSE, statusCalled |-> FALSE, st |-> NoStatus,
              fetchOk |-> FALSE, lsOk |-> FALSE,
              noticeAdded |-> FALSE, mirrorInvoked |-> FALSE,
              steps |-> pushSteps(FALSE, FALSE, "none", FALSE)]
  /\ UNCHANGED <<exists, remote, loc, trk, dst>>

\* push(repo) without markSource
PushChecked(fetchOk, lsOk, lingering, pushOk) ==
  LET st == statusOf(fetchOk, lsOk, lingering)
      gate == pushGate(st)
      refs == locAfterFetch(fetchOk, lingering)
      tracking == trkAfterFetch(fetchOk)
      base == [op |-> "push", markSource |-> FALSE, statusCalled |-> TRUE,
               st |-> st, fetchOk |-> fetchOk, lsOk |-> lsOk,
               noticeAdded |-> FALSE,
               steps |-> pushSteps(TRUE, FALSE, gate, FALSE)]
  IN  /\ exists
      /\ (fetchOk \/ lsOk \/ pushOk) => remote
      /\ pushOk => gate = "proceed"
      /\ loc' = refs
      /\ UNCHANGED <<exists, remote>>
      /\ CASE gate = "blocked" ->
                /\ last' = base @@ [success |-> FALSE, pushed |-> FALSE,
                                    error |-> joinErrors(st.errors),
                                    mirrorInvoked |-> FALSE]
                /\ trk' = tracking
                /\ UNCHANGED dst
           [] gate = "uptodate" ->
                /\ last' = base @@ [success |-> TRUE, pushed |-> FALSE,
                                    mirrorInvoked |-> FALSE]
                /\ trk' = tracking
                /\ UNCHANGED dst
           [] gate = "proceed" /\ pushOk ->
                /\ last' = base @@ [success |-> TRUE, pushed |-> TRUE,
                                    mirrorInvoked |-> TRUE]
                /\ dst' = pushMirrorDst(refs)
                /\ trk' = pushMirrorTrk(refs, tracking)
           [] gate = "proceed" /\ ~pushOk ->
                /\ last' = base @@ [success |-> FALSE, pushed |-> FALSE,
                                    error |-> <<"Failed to push">>,
                                    mirrorInvoked |-> TRUE]
                /\ trk' = tracking
                /\ UNCHANGED dst

\* PushMarked that goes on to the mirror push when the notice failed
PushMarked_IgnoresNoticeFailure(noticeOk, pushOk) ==
  LET base == [op |-> "push", markSource |-> TRUE, statusCalled |-> FALSE,
               st |-> NoStatus, fetchOk |-> FALSE, lsOk |-> FALSE,
               steps |-> pushSteps(TRUE, TRUE, "none", TRUE)]
  IN  /\ exists
      /\ ~pushOk
      /\ noticeOk => canAddNotice(loc)
      /\ UNCHANGED <<exists, remote, trk, dst>>
      /\ loc' = IF noticeOk THEN [loc EXCEPT ![DefaultBranch] = NoticeOf(@)]
                ELSE loc
      /\ last' = base @@ [success |-> FALSE, pushed |-> FALSE,
                          error |-> <<"Failed to push">>,
                          noticeAdded |-> noticeOk, mirrorInvoked |-> TRUE]

\* push(repo) with markSource: no status, the notice commit, then the push
PushMarked(noticeOk, pushOk) ==
  LET base == [op |-> "push", markSource |-> TRUE, statusCalled |-> FALSE,
               st |-> NoStatus, fetchOk |-> FALSE, lsOk |-> FALSE,
               steps |-> pushSteps(TRUE, TRUE, "none", noticeOk)]
      noticed == [loc EXCEPT ![DefaultBranch] = NoticeOf(@)]
  IN  /\ exists
      /\ pushOk => remote /\ noticeOk
      /\ noticeOk => canAddNotice(loc)
      /\ UNCHANGED <<exists, remote>>
      /\ IF ~noticeOk
         THEN /\ last' = base @@ [success |-> FALSE, pushed |-> FALSE,
                                  error |-> <<"Failed to add source notice">>,
                                  noticeAdded |-> FALSE,
                                  mirrorInvoked |-> FALSE]
              /\ UNCHANGED <<loc, trk, dst>>
         ELSE /\ loc' = noticed
              /\ IF pushOk
                 THEN /\ last' = base @@ [success |-> TRUE, pushed |-> TRUE,
                                          noticeAdded |-> TRUE,
                                          mirrorInvoked |-> TRUE]
                      /\ dst' = pushMirrorDst(noticed)
                      /\ trk' = pushMirrorTrk(noticed, trk)
                 ELSE /\ last' = base @@ [success |-> FALSE, pushed |-> FALSE,
                                          error |-> <<"Failed to push">>,
                                          noticeAdded |-> TRUE,
                                          mirrorInvoked |-> TRUE]
                      /\ UNCHANGED <<trk, dst>>

Push(markSource, fetchOk, lsOk, lingering, noticeOk, pushOk) ==
  /\ UNCHANGED pureVars
  /\ \/ /\ ~(markSource \/ fetchOk \/ lsOk \/ lingering \/ noticeOk \/ pushOk)
        /\ PushNotPulled
     \/ /\ ~markSource /\ ~noticeOk
        /\ PushChecked(fetchOk, lsOk, lingering, pushOk)
     \/ /\ markSource /\ ~fetchOk /\ ~lsOk /\ ~lingering
        /\ PushMarked(noticeOk, pushOk)

\* Clean that reports the removal and leaves the clone on disk
Clean_KeepsClone ==
  /\ last' = [op |-> "clean", removed |-> exists]
  /\ UNCHANGED <<exists, remote, loc, trk, dst, pureVars>>

\* clean(repo)
Clean ==
  /\ exists' = FALSE
  /\ remote' = FALSE
  /\ loc' = EmptyMap
  /\ trk' = EmptyMap
  /\ last' = [op |-> "clean", removed |-> exists]
  /\ UNCHANGED <<dst, pureVars>>

\* somebody else changes the private repository: sets or deletes one ref
PrivateChange(n, c) ==
  /\ dst' = IF c = null
            THEN Restrict(dst, DOMAIN dst \ {n})
            ELSE [m \in DOMAIN dst \cup {n} |-> IF m = n THEN c ELSE dst[m]]
  /\ dst' # dst
  /\ last' = [op |-> "env"]
  /\ UNCHANGED <<exists, remote, loc, trk, pureVars>>

Next ==
  \/ \E pubRefs \in Inventories(RefNames, BaseCommits),
        transferOk \in BOOLEAN, remoteOk \in BOOLEAN :
       Pull(pubRefs, transferOk, remoteOk)
  \/ \E fetchOk \in BOOLEAN, lsOk \in BOOLEAN, lingering \in BOOLEAN :
       Status(fetchOk, lsOk, lingering)
  \/ \E markSource \in BOOLEAN, fetchOk \in BOOLEAN, lsOk \in BOOLEAN,
        lingering \in BOOLEAN, noticeOk \in BOOLEAN, pushOk \in BOOLEAN :
       Push(markSource, fetchOk, lsOk, lingering, noticeOk, pushOk)
  \/ Clean
  \/ \E n \in RefNames, c \in {null} \cup BaseCommits : PrivateChange(n, c)

Spec == Init /\ [][Next]_vars

(***************************************************************************)
(* compareRefs called directly on arbitrary inventories.  The repository   *)
(* it queries holds at least the commits of the local inventory.           *)
(***************************************************************************)
CmpInputs ==
  {[odb |-> Closure(Range(l)) \cup extra, localRefs |-> l, privateRefs |-> p] :
     l \in Inventories(CmpRefNames, CmpCommits),
     p \in Inventories(CmpRefNames, CmpCommits),
     extra \in {{}, Closure(CmpCommits)}}

InitCmp ==
  /\ exists = FALSE
  /\ remote = FALSE
  /\ loc = EmptyMap
  /\ trk = EmptyMap
  /\ dst = EmptyMap
  /\ last = [op |-> "init"]
  /\ cmpIn \in CmpInputs
  /\ cmpOut = Unused
  /\ cfgIn = Unused
  /\ cfgOut = Unused
  /\ cli = Unused

\* a comparison that removes from privateRefs the names it has matched
inventoriesAfter_Consuming(localRefs, privateRefs) ==
  [localRefs |-> localRefs,
   privateRefs |-> Restrict(privateRefs, DOMAIN privateRefs \ DOMAIN localRefs)]

\* compareRefs reads the two maps (iteration, get, has) and writes neither
inventoriesAfter(localRefs, privateRefs) ==
  [localRefs |-> localRefs, privateRefs |-> privateRefs]

Compare ==
  /\ cmpOut = Unused
  /\ LET cmp == compareRefs(cmpIn.odb, cmpIn.localRefs, cmpIn.privateRefs)
         after == inventoriesAfter(cmpIn.localRefs, cmpIn.privateRefs)
     IN  /\ cmpOut' = [result |-> cmp, status |-> PulledResult(cmp),
                       given |-> cmpIn,
                       queries |-> compareQueries(cmpIn.odb, cmpIn.localRefs,
                                                  cmpIn.privateRefs)]
         /\ cmpIn' = [cmpIn EXCEPT !.localRefs = after.localRefs,
                                   !.privateRefs = after.privateRefs]
  /\ UNCHANGED <<sysVars, cfgIn, cfgOut, cli>>

\* a second compareRefs call on the same maps and the same repository
CompareAgain ==
  /\ cmpOut # Unused
  /\ "again" \notin DOMAIN cmpOut
  /\ LET cmp == compareRefs(cmpIn.odb, cmpIn.localRefs, cmpIn.privateRefs)
         after == inventoriesAfter(cmpIn.localRefs, cmpIn.privateRefs)
     IN  /\ cmpOut' = cmpOut @@ [again |-> cmp]
         /\ cmpIn' = [cmpIn EXCEPT !.localRefs = after.localRefs,
                                   !.privateRefs = after.privateRefs]
  /\ UNCHANGED <<sysVars, cfgIn, cfgOut, cli>>

\* a compareRefs call with the two maps exchanged
CompareSwapped ==
  /\ cmpOut # Unused
  /\ "again" \in DOMAIN cmpOut
  /\ "swapped" \notin DOMAIN cmpOut
  /\ LET cmp == compareRefs(cmpIn.odb, cmpIn.privateRefs, cmpIn.localRefs)
     IN  cmpOut' = cmpOut @@ [swapped |-> cmp]
  /\ UNCHANGED <<sysVars, cmpIn, cfgIn, cfgOut, cli>>

NextCmp == Compare \/ CompareAgain \/ CompareSwapped

SpecCmp == InitCmp /\ [][NextCmp]_vars

(***************************************************************************)
(* config.ts: loadConfig, validateRepoConfig, getRepoTempPath.  A path is  *)
(* the sequence of its segments and a segment the sequence of its pieces,  *)
(* so that "a.git" is <<"a", ".git">>; a repository name is a path too,    *)
(* "./a" being << <<".">>, <<"a">> >>.  A field of a parsed entry is a     *)
(* value with its JavaScript type; the empty string is <<>>.               *)
(***************************************************************************)
Str(v) == [type |-> "string", v |-> v]

Undefined == [type |-> "undefined"]

Num == [type |-> "number"]

\* !value for the values above: undefined and "" are falsy
Falsy(value) == value.type = "undefined" \/ (value.type = "string" /\ value.v = <<>>)

NameValues ==
  {Undefined, Num, Str(<<>>),
   Str(<< <<"a">> >>), Str(<< <<"b">> >>), Str(<< <<".">>, <<"a">> >>)}

PublicValues == {Undefined, Str(<<"https://pub">>)}

PrivateValues == {Undefined, Str(<<"git@priv1">>), Str(<<"git@priv2">>)}

RepoEntries ==
  {[name |-> n, public |-> pu, private |-> pr] :
     n \in NameValues, pu \in PublicValues, pr \in PrivateValues}

\* what parseYaml gives for a file with no content: null, not an object
NullDocument == [fileExists |-> TRUE, isNull |-> TRUE]

ErrNullDocument == "TypeError: Cannot read properties of null (reading 'repos')"

CfgInputs ==
  {[fileExists |-> FALSE], [fileExists |-> TRUE, hasRepos |-> FALSE],
   NullDocument}
  \cup {[fileExists |-> TRUE, hasRepos |-> TRUE, repos |-> r] :
          r \in UNION {[1..k -> RepoEntries] : k \in 0..MaxRepos}}

\* validateRepoConfig on the i-th entry: the message it throws, or "ok"
validateRepoConfig(repos, i) ==
  LET repo == repos[i]
  IN  IF Falsy(repo.name) \/ repo.name.type # "string"
      THEN "Each repo must have a 'name' string"
      ELSE IF Falsy(repo.public) \/ repo.public.type # "string"
      THEN "Repo must have a 'public' URL"
      ELSE IF Falsy(repo.private) \/ repo.private.type # "string"
      THEN "Repo must have a 'private' URL"
      ELSE "ok"

\* loadConfig: throws on the first entry that does not validate
loadConfig(file) ==
  IF ~file.fileExists
  THEN [threw |-> TRUE, error |-> "Config file not found"]
  ELSE IF file = NullDocument
  THEN [threw |-> TRUE, error |-> ErrNullDocument]
  ELSE IF ~file.hasRepos
  THEN [threw |-> TRUE, error |-> "Config must have a 'repos' array"]
  ELSE LET bad == {i \in 1..Len(file.repos) :
                     validateRepoConfig(file.repos, i) # "ok"}
       IN  IF bad # {}
           THEN [threw |-> TRUE,
                 error |-> validateRepoConfig(
                             file.repos,
                             CHOOSE i \in bad : \A j \in bad : i <= j)]
           ELSE [threw |-> FALSE, repos |-> file.repos]

Dot == <<".">>

DotDot == <<"..">>

\* path.normalize on segments: "." is dropped, ".." removes what precedes it
RECURSIVE Normalize(_, _)
Normalize(acc, rest) ==
  IF rest = <<>> THEN acc
  ELSE LET h == Head(rest)
       IN  IF h = Dot THEN Normalize(acc, Tail(rest))
           ELSE IF h = DotDot
           THEN Normalize(IF acc = <<>> THEN acc
                          ELSE SubSeq(acc, 1, Len(acc) - 1), Tail(rest))
           ELSE Normalize(Append(acc, h), Tail(rest))

\* join(homedir(), ".repo-sync") then join(CACHE_DIR, "repos")
getTempDir == << <<"~">>, <<".repo-sync">>, <<"repos">> >>

\* join(getTempDir(), `${repoName}.git`)
getRepoTempPath(repoName) ==
  Normalize(<<>>,
            getTempDir
            \o [repoName EXCEPT ![Len(repoName)] = @ \o <<".git">>])

InitCfg ==
  /\ exists = FALSE
  /\ remote = FALSE
  /\ loc = EmptyMap
  /\ trk = EmptyMap
  /\ dst = EmptyMap
  /\ last = [op |-> "init"]
  /\ cmpIn = Unused
  /\ cmpOut = Unused
  /\ cfgIn \in CfgInputs
  /\ cfgOut = Unused
  /\ cli = Unused

LoadConfig ==
  /\ cfgOut = Unused
  /\ cfgOut' = loadConfig(cfgIn)
  /\ UNCHANGED <<sysVars, cmpIn, cmpOut, cfgIn, cli>>

\* the commands resolve the working directory of every repository they got
RepoPaths ==
  /\ cfgOut # Unused
  /\ ~cfgOut.threw
  /\ "paths" \notin DOMAIN cfgOut
  /\ cfgOut' = cfgOut @@
       [paths |-> [i \in 1..Len(cfgOut.repos) |->
                     getRepoTempPath(cfgOut.repos[i].name.v)]]
  /\ UNCHANGED <<sysVars, cmpIn, cmpOut, cfgIn, cli>>

NextCfg == LoadConfig \/ RepoPaths

SpecCfg == InitCfg /\ [][NextCfg]_vars

(***************************************************************************)
(* cli.ts: main, getRepos, commandPull and commandPush, with pull() and    *)
(* addRemote at the level of the private remote's URL.  The cache holds,   *)
(* per repository name, whether the mirror clone is on disk and the URL of *)
(* its remote "private" (NoUrl when it has none).                          *)
(***************************************************************************)
NoUrl == ""

NoName == ""

CliEntries ==
  {[name |-> "a", private |-> "p1", markSource |-> FALSE],
   [name |-> "a", private |-> "p2", markSource |-> TRUE],
   [name |-> "b", private |-> "p1", markSource |-> TRUE],
   [name |-> "b", private |-> "p2", markSource |-> FALSE]}

CliConfigs == UNION {[1..k -> CliEntries] : k \in 1..MaxRepos}

CacheStates ==
  {[exists |-> FALSE, url |-> NoUrl], [exists |-> TRUE, url |-> NoUrl],
   [exists |-> TRUE, url |-> "p1"], [exists |-> TRUE, url |-> "p2"]}

\* config.repos.find((r) => r.name === name): the first match, 0 when none
findRepo(config, name) ==
  LET hits == {i \in 1..Len(config) : config[i].name = name}
  IN  IF hits = {} THEN 0 ELSE CHOOSE i \in hits : \A j \in hits : i <= j

\* getRepos: the named repository, or all of them; exit 1 when not found
getRepos(config, repoName) ==
  IF repoName # NoName
  THEN IF findRepo(config, repoName) = 0
       THEN [found |-> FALSE, repos |-> <<>>]
       ELSE [found |-> TRUE, repos |-> <<config[findRepo(config, repoName)]>>]
  ELSE [found |-> TRUE, repos |-> config]

\* addRemote that rewrites the URL only when the remote is missing
addRemote_KeepsExistingUrl(url, wanted, cmdOk) ==
  IF url # NoUrl THEN [success |-> TRUE, url |-> url]
  ELSE [success |-> cmdOk, url |-> IF cmdOk THEN wanted ELSE url]

\* addRemote(repoPath, "private", wanted) on a clone whose remote has `url`
addRemote(url, wanted, cmdOk) ==
  IF url # NoUrl
  THEN IF url # wanted
       THEN [success |-> cmdOk, url |-> IF cmdOk THEN wanted ELSE url]
       ELSE [success |-> TRUE, url |-> url]
  ELSE [success |-> cmdOk, url |-> IF cmdOk THEN wanted ELSE url]

\* pull(repo) on the cache entry of repo.name: its result and the entry after
pull(entry, repo, transferOk, cmdOk) ==
  IF ~transferOk
  THEN [result |-> [success |-> FALSE, isNew |-> ~entry.exists,
                    error |-> IF entry.exists THEN "Failed to fetch"
                              ELSE "Failed to clone"],
        entry |-> entry, calls |-> <<IF entry.exists THEN "fetchOrigin"
                                     ELSE "cloneMirror">>]
  ELSE LET remoteResult == addRemote(entry.url, repo.private, cmdOk)
           calls == <<IF entry.exists THEN "fetchOrigin" ELSE "cloneMirror",
                      "addRemote">>
       IN  IF ~remoteResult.success
           THEN [result |-> [success |-> FALSE, isNew |-> ~entry.exists,
                             error |-> "Failed to add private remote"],
                 entry |-> [exists |-> TRUE, url |-> remoteResult.url],
                 calls |-> calls]
           ELSE [result |-> [success |-> TRUE, isNew |-> ~entry.exists],
                 entry |-> [exists |-> TRUE, url |-> remoteResult.url],
                 calls |-> calls]

\* what push(repo) can do on the cache entry of repo.name: return pushed,
\* up to date or failed, or let an exception of addSourceNotice through
pushOutcomes(entry, repo) ==
  IF ~entry.exists THEN {"failed"}
  ELSE IF repo.markSource THEN {"pushed", "failed", "threw"}
  ELSE {"pushed", "skipped", "failed"}

InitCli ==
  /\ exists = FALSE
  /\ remote = FALSE
  /\ loc = EmptyMap
  /\ trk = EmptyMap
  /\ dst = EmptyMap
  /\ last = [op |-> "init"]
  /\ cmpIn = Unused
  /\ cmpOut = Unused
  /\ cfgIn = Unused
  /\ cfgOut = Unused
  /\ cli \in [phase : {"start"}, command : {"pull", "push"},
              config : CliConfigs, repoName : {NoName, "b", "c"},
              cache : [{"a", "b"} -> CacheStates]]

cliFrame == <<sysVars, cmpIn, cmpOut, cfgIn, cfgOut>>

\* main up to the command: getRepos, then the command's counters at zero
Main ==
  /\ cli.phase = "start"
  /\ LET got == getRepos(cli.config, cli.repoName)
     IN  cli' = IF got.found
                THEN [cli EXCEPT !.phase = "loop"] @@
                     [repos |-> got.repos, idx |-> 1, log |-> <<>>,
                      success |-> 0, pushed |-> 0, skipped |-> 0,
                      failed |-> 0]
                ELSE [cli EXCEPT !.phase = "exited"] @@
                     [selected |-> FALSE, summary |-> FALSE, exitCode |-> 1]
  /\ UNCHANGED cliFrame

\* one iteration of the loop of commandPull
CommandPull(transferOk, cmdOk) ==
  /\ cli.phase = "loop" /\ cli.command = "pull"
  /\ cli.idx <= Len(cli.repos)
  /\ LET repo == cli.repos[cli.idx]
         before == cli.cache[repo.name]
         p == pull(before, repo, transferOk, cmdOk)
     IN  /\ ~transferOk => cmdOk
         /\ cli' = [cli EXCEPT
                     !.cache[repo.name] = p.entry,
                     !.idx = @ + 1,
                     !.log = Append(@, [repo |-> repo, before |-> before,
                                        after |-> p.entry, calls |-> p.calls,
                                        result |-> p.result]),
                     !.success = IF p.result.success THEN @ + 1 ELSE @,
                     !.failed = IF p.result.success THEN @ ELSE @ + 1]
  /\ UNCHANGED cliFrame

\* one iteration of the loop of commandPush; an exception leaves the loop and
\* the function and is caught in main, which exits with 1
CommandPush(outcome) ==
  /\ cli.phase = "loop" /\ cli.command = "push"
  /\ cli.idx <= Len(cli.repos)
  /\ LET repo == cli.repos[cli.idx]
     IN  /\ outcome \in pushOutcomes(cli.cache[repo.name], repo)
         /\ cli' = IF outcome = "threw"
                    THEN [cli EXCEPT !.phase = "exited"] @@
                         [selected |-> TRUE, summary |-> FALSE,
                          exitCode |-> 1]
                    ELSE [cli EXCEPT
                            !.idx = @ + 1,
                            !.log = Append(@, [repo |-> repo,
                                               result |-> outcome]),
                            !.pushed = IF outcome = "pushed" THEN @ + 1 ELSE @,
                            !.skipped = IF outcome = "skipped" THEN @ + 1
                                        ELSE @,
                            !.failed = IF outcome = "failed" THEN @ + 1 ELSE @]
  /\ UNCHANGED cliFrame

\* after the loop: the summary line, then process.exit(1) if any failed
Finish ==
  /\ cli.phase = "loop"
  /\ cli.idx > Len(cli.repos)
  /\ cli' = [cli EXCEPT !.phase = "exited"] @@
            [selected |-> TRUE, summary |-> TRUE,
             exitCode |-> IF cli.failed > 0 THEN 1 ELSE 0]
  /\ UNCHANGED cliFrame

NextCli ==
  \/ Main
  \/ \E transferOk, cmdOk \in BOOLEAN : CommandPull(transferOk, cmdOk)
  \/ \E outcome \in {"pushed", "skipped", "failed", "threw"} :
        CommandPush(outcome)
  \/ Finish

SpecCli == InitCli /\ [][NextCli]_vars

(***************************************************************************)
(* Properties.                                                             *)
(***************************************************************************)
\* the StatusResult the last operation computed, if it computed one
HasLastStatus ==
  \/ last.op = "status"
  \/ last.op = "push" /\ last.statusCalled

LastStatus == IF last.op = "status" THEN last.result ELSE last.st

RecordsWith(st, S) ==
  {<<"branches", i>> : i \in {j \in 1..Len(st.branches) :
                                st.branches[j].status \in S}}
  \cup {<<"tags", i>> : i \in {j \in 1..Len(st.tags) :
                                 st.tags[j].status \in S}}

UnmarkedPush == last.op = "push" /\ ~last.markSource

\* C1: in every status() result of a pulled repository, canPush is false
\* exactly when some branch or tag record is behind or diverged.
C1_CanPushIffNoBehindNoDiverged ==
  (HasLastStatus /\ LastStatus.pulled) =>
    (LastStatus.canPush = FALSE
       <=> RecordsWith(LastStatus, {"behind", "diverged"}) # {})

C1_Witness ==
  /\ HasLastStatus /\ LastStatus.pulled
  /\ RecordsWith(LastStatus, {"diverged"}) # {}
  /\ RecordsWith(LastStatus, {"behind"}) = {}
  /\ ~LastStatus.canPush

\* C2: in every status() result of a pulled repository, hasChanges is true
\* exactly when some record is ahead, new or missing; same, behind and
\* diverged records alone leave it false.
C2_HasChangesIffAheadNewMissing ==
  (HasLastStatus /\ LastStatus.pulled) =>
    (LastStatus.hasChanges = TRUE
       <=> RecordsWith(LastStatus, {"ahead", "new", "missing"}) # {})

C2_Witness ==
  /\ HasLastStatus /\ LastStatus.pulled
  /\ RecordsWith(LastStatus, {"missing"}) # {}
  /\ RecordsWith(LastStatus, {"ahead", "new"}) = {}
  /\ RecordsWith(LastStatus, {"behind", "diverged"}) # {}
  /\ LastStatus.hasChanges

StrictAncestor(a, b) == a # b /\ a \in Anc(b)

ReallyBehind(refs, n) == StrictAncestor(refs[n], dst[n])

ReallyDiverged(refs, n) == refs[n] \notin Anc(dst[n]) /\ dst[n] \notin Anc(refs[n])

\* a step in which push() ran the mirror push and the destination took it
MirrorPushStep == last'.op = "push" /\ last'.pushed

\* C4: push() never runs the mirror push while some reference of the clone
\* is behind or diverged with respect to the destination, whatever the
\* repository's options are.
C4_NoMirrorPushWhenBehindOrDiverged ==
  [][MirrorPushStep =>
       \A n \in DOMAIN loc \cap DOMAIN dst :
          ~ReallyBehind(loc, n) /\ ~ReallyDiverged(loc, n)]_vars

\* C5: when a push() without markSource runs the mirror push, every reference
\* present on both sides is fast-forwarded: the commit the destination holds
\* is the pushed commit or one of its ancestors.
C5_MirrorPushOnlyFastForwards ==
  [][(MirrorPushStep /\ ~last'.markSource) =>
       \A n \in DOMAIN loc' \cap DOMAIN dst : dst[n] \in Anc(loc'[n])]_vars

\* the reference n has a record with a status in S in the status result st
ClassifiedAs(st, n, S) ==
  LET list == IF n[1] = "tags" THEN st.tags ELSE st.branches
  IN  \E i \in 1..Len(list) :
         list[i].name = n[2] /\ list[i].status \in S

\* C6 as claimed: no push() removes from the destination a reference that
\* only the destination has.
C6_PushNeverDeletes ==
  [][last'.op = "push" =>
       \A n \in DOMAIN dst \ DOMAIN loc' : n \in DOMAIN dst']_vars

\* C6 as amended: status() leaves the destination alone, and a push() whose
\* mirror push succeeds removes from the destination every reference the
\* clone lacks, those its status classified missing included.
C6_SuccessfulPushDeletesMissing ==
  [][/\ last'.op = "status" => dst' = dst
     /\ (last'.op = "push" /\ last'.pushed) =>
          /\ \A n \in DOMAIN dst \ DOMAIN loc' : n \notin DOMAIN dst'
          /\ last'.statusCalled =>
               \A n \in RefNames :
                  ClassifiedAs(last'.st, n, {"missing"}) => n \notin DOMAIN dst'
    ]_vars

C6_Witness ==
  /\ UnmarkedPush /\ last.pushed /\ last.fetchOk /\ last.lsOk
  /\ \E n \in HeadNames :
        ClassifiedAs(last.st, n, {"missing"}) /\ n \notin DOMAIN dst
  /\ \E n \in TagNames :
        ClassifiedAs(last.st, n, {"missing"}) /\ n \notin DOMAIN dst

AllSame(st) ==
  RecordsWith(st, Statuses \ {"same"}) = {}

\* C7: right after a push() without markSource that pushed, with neither side
\* changed since, a status() whose fetch and tag listing succeed classifies
\* every reference same with hasChanges false, and a push() returns success
\* without pushing and without invoking pushMirror.
C7_PushedThenUpToDate ==
  [][(UnmarkedPush /\ last.pushed) =>
       /\ (last'.op = "status" /\ last'.fetchOk /\ last'.lsOk) =>
            AllSame(last'.result) /\ ~last'.result.hasChanges
       /\ (last'.op = "push" /\ ~last'.markSource
             /\ last'.fetchOk /\ last'.lsOk) =>
            /\ AllSame(last'.st)
            /\ last'.success /\ ~last'.pushed /\ ~last'.mirrorInvoked
    ]_vars

(***************************************************************************)
(* Properties of compareRefs itself, over SpecCmp.                         *)
(***************************************************************************)
Compared == cmpOut # Unused

CmpUnion == DOMAIN cmpIn.localRefs \cup DOMAIN cmpIn.privateRefs

OnlyLocal == DOMAIN cmpIn.localRefs \ DOMAIN cmpIn.privateRefs

OnlyPrivate == DOMAIN cmpIn.privateRefs \ DOMAIN cmpIn.localRefs

\* the list in which the record of reference n belongs
ListOf(n) == IF n[1] = "tags" THEN cmpOut.result.tags ELSE cmpOut.result.branches

\* the pair of commits a record of reference n must carry
PairOf(n) ==
  <<GetOrNull(cmpIn.localRefs, n), GetOrNull(cmpIn.privateRefs, n)>>

RecPair(r) == <<r.localRef, r.privateRef>>

SameKind(m, n) == (m[1] = "tags") <=> (n[1] = "tags")

OutRecords == AllRecords(cmpOut.result)

CountStatus(S) ==
  Cardinality({i \in 1..Len(OutRecords) : OutRecords[i].status \in S})

\* C8: compareRefs emits one record per distinct reference name of the two
\* inventories and no others (as many records about a reference's commits
\* in its list as there are references with these commits), each with one
\* of the six statuses.
C8_OneRecordPerReference ==
  Compared =>
    /\ Len(OutRecords) = Cardinality(CmpUnion)
    /\ \A n \in CmpUnion :
          Cardinality({i \in 1..Len(ListOf(n)) :
                         RecPair(ListOf(n)[i]) = PairOf(n)})
          = Cardinality({m \in CmpUnion :
                           SameKind(m, n) /\ PairOf(m) = PairOf(n)})
    /\ \A i \in 1..Len(OutRecords) : OutRecords[i].status \in Statuses

C8_Witness ==
  /\ Compared
  /\ OnlyLocal # {} /\ OnlyPrivate # {}
  /\ DOMAIN cmpIn.localRefs \cap DOMAIN cmpIn.privateRefs # {}
  /\ Len(OutRecords) = 3

\* C9: for identical inventories every record is same, canPush is true and
\* hasChanges is false.
C9_IdenticalInventoriesAllSame ==
  (Compared /\ cmpIn.localRefs = cmpIn.privateRefs) =>
    /\ \A i \in 1..Len(OutRecords) : OutRecords[i].status = "same"
    /\ Len(OutRecords) = Cardinality(DOMAIN cmpIn.localRefs)
    /\ cmpOut.status.canPush
    /\ ~cmpOut.status.hasChanges

C9_Witness ==
  /\ Compared /\ cmpIn.localRefs = cmpIn.privateRefs
  /\ Cardinality(DOMAIN cmpIn.localRefs) = 3
  /\ Len(OutRecords) = 3

\* C10: a reference only in the source inventory is new with privateRef null,
\* one only in the destination inventory is missing with localRef null, and
\* no reference present on both sides is new or missing.
C10_NewAndMissing ==
  Compared =>
    /\ \A n \in OnlyLocal :
          \E i \in 1..Len(ListOf(n)) :
             /\ ListOf(n)[i].status = "new"
             /\ ListOf(n)[i].localRef = cmpIn.localRefs[n]
             /\ ListOf(n)[i].privateRef = null
    /\ \A n \in OnlyPrivate :
          \E i \in 1..Len(ListOf(n)) :
             /\ ListOf(n)[i].status = "missing"
             /\ ListOf(n)[i].localRef = null
             /\ ListOf(n)[i].privateRef = cmpIn.privateRefs[n]
    /\ CountStatus({"new"}) = Cardinality(OnlyLocal)
    /\ CountStatus({"missing"}) = Cardinality(OnlyPrivate)
    /\ \A i \in 1..Len(OutRecords) :
          (OutRecords[i].localRef # null /\ OutRecords[i].privateRef # null)
            => OutRecords[i].status \notin {"new", "missing"}

C10_Witness ==
  /\ Compared
  /\ OnlyLocal # {} /\ OnlyPrivate # {}
  /\ DOMAIN cmpIn.localRefs \cap DOMAIN cmpIn.privateRefs # {}
  /\ CountStatus({"new"}) = 1 /\ CountStatus({"missing"}) = 1

\* the references both inventories name
OnBoth == DOMAIN cmpIn.localRefs \cap DOMAIN cmpIn.privateRefs

\* the records of a list that carry the given pair of commits
RecsFor(list, pair) ==
  {list[i] : i \in {j \in 1..Len(list) : RecPair(list[j]) = pair}}

HasCounts(r) == "aheadCount" \in DOMAIN r \/ "behindCount" \in DOMAIN r

\* C11: a reference whose commits differ and whose destination commit is a
\* strict ancestor of its source commit has a record, with status ahead and
\* aheadCount = the number of commits reachable from the source commit and
\* not from the destination commit, which is at least 1.
C11_AheadWithExclusiveCount ==
  Compared =>
    \A n \in OnBoth :
       LET l == cmpIn.localRefs[n]
           p == cmpIn.privateRefs[n]
           recs == RecsFor(ListOf(n), <<l, p>>)
       IN  StrictAncestor(p, l) =>
             /\ recs # {}
             /\ \A r \in recs :
                   /\ r.status = "ahead"
                   /\ r.aheadCount = Cardinality(Anc(l) \ Anc(p))
                   /\ r.aheadCount >= 1

C11_Witness ==
  /\ Compared
  /\ \E n \in OnBoth :
        /\ StrictAncestor(cmpIn.privateRefs[n], cmpIn.localRefs[n])
        /\ \E r \in RecsFor(ListOf(n), PairOf(n)) :
              r.status = "ahead" /\ r.aheadCount = 2

\* the list of the exchanged comparison in which reference n belongs
SwappedListOf(n) ==
  IF n[1] = "tags" THEN cmpOut.swapped.tags ELSE cmpOut.swapped.branches

\* C12: with source and destination exchanged, a reference classified ahead
\* with count N is classified behind with behindCount = N, and one
\* classified behind with count N is classified ahead with aheadCount = N.
C12_SwapAheadBehind ==
  (Compared /\ "swapped" \in DOMAIN cmpOut) =>
    \A n \in OnBoth :
       LET l == cmpIn.localRefs[n]
           p == cmpIn.privateRefs[n]
           sw == RecsFor(SwappedListOf(n), <<p, l>>)
       IN  \A r \in RecsFor(ListOf(n), <<l, p>>) :
              /\ r.status = "ahead" =>
                    /\ sw # {}
                    /\ \A q \in sw : /\ q.status = "behind"
                                     /\ q.behindCount = r.aheadCount
              /\ r.status = "behind" =>
                    /\ sw # {}
                    /\ \A q \in sw : /\ q.status = "ahead"
                                     /\ q.aheadCount = r.behindCount

C12_Witness ==
  /\ Compared /\ "swapped" \in DOMAIN cmpOut
  /\ \E i \in 1..Len(OutRecords) :
        OutRecords[i].status = "ahead" /\ OutRecords[i].aheadCount = 2
  /\ \E i \in 1..Len(OutRecords) :
        OutRecords[i].status = "behind" /\ OutRecords[i].behindCount = 1
  /\ \E i \in 1..Len(AllRecords(cmpOut.swapped)) :
        /\ AllRecords(cmpOut.swapped)[i].status = "behind"
        /\ AllRecords(cmpOut.swapped)[i].behindCount = 2

\* C13: a reference whose commits differ and of which neither is an ancestor
\* of the other has a record (compareRefs returns, the reference is not
\* dropped), with status diverged and no count.
C13_DivergedWhenNeitherAncestor ==
  Compared =>
    \A n \in OnBoth :
       LET l == cmpIn.localRefs[n]
           p == cmpIn.privateRefs[n]
           recs == RecsFor(ListOf(n), <<l, p>>)
       IN  (l # p /\ l \notin Anc(p) /\ p \notin Anc(l)) =>
             /\ recs # {}
             /\ \A r \in recs : r.status = "diverged" /\ ~HasCounts(r)

C13_Witness ==
  /\ Compared
  /\ \E n \in OnBoth :
        LET l == cmpIn.localRefs[n]
            p == cmpIn.privateRefs[n]
        IN  /\ l # p /\ l \notin Anc(p) /\ p \notin Anc(l)
            /\ {l, p} \subseteq cmpIn.odb
            /\ \E r \in RecsFor(ListOf(n), <<l, p>>) : r.status = "diverged"

C15_OracleFailureNotDiverged ==
  Compared =>
    \A i \in 1..Len(OutRecords) :
       LET r == OutRecords[i]
       IN  (/\ r.localRef # null /\ r.privateRef # null
            /\ r.localRef # r.privateRef
            /\ ~({r.localRef, r.privateRef} \subseteq cmpIn.odb))
           => r.status # "diverged"

QueryCount(n, fn) ==
  Cardinality({i \in 1..Len(cmpOut.queries) :
                 cmpOut.queries[i].ref = n /\ cmpOut.queries[i].fn = fn})

Differing(n) ==
  n \in OnBoth /\ cmpIn.localRefs[n] # cmpIn.privateRefs[n]

\* C25: compareRefs asks the ancestry of a reference only when both
\* inventories name it with different commits (once in each direction, and
\* not at all for same, new or missing references), and asks the commit
\* count once for a reference it classifies ahead or behind and for no other.
C25_QueriesOnlyForDiffering ==
  Compared =>
    /\ \A i \in 1..Len(cmpOut.queries) : Differing(cmpOut.queries[i].ref)
    /\ \A n \in CmpUnion :
          LET l == GetOrNull(cmpIn.localRefs, n)
              p == GetOrNull(cmpIn.privateRefs, n)
              counted == \E r \in RecsFor(ListOf(n), <<l, p>>) :
                            r.status \in {"ahead", "behind"}
          IN  /\ QueryCount(n, "isAncestor") = IF Differing(n) THEN 2 ELSE 0
              /\ Differing(n) =>
                    \A pair \in {<<l, p>>, <<p, l>>} :
                       \E i \in 1..Len(cmpOut.queries) :
                          /\ cmpOut.queries[i].ref = n
                          /\ cmpOut.queries[i].fn = "isAncestor"
                          /\ <<cmpOut.queries[i].from, cmpOut.queries[i].to>>
                               = pair
              /\ QueryCount(n, "getCommitCount") = IF counted THEN 1 ELSE 0

C25_Witness ==
  /\ Compared
  /\ CountStatus({"same"}) = 1 /\ CountStatus({"ahead"}) = 1
  /\ CountStatus({"new", "missing"}) = 1
  /\ Len(cmpOut.queries) = 3

\* C26: the record of every reference is in the list of its kind and not in
\* the other, its name is the whole of the reference's name after heads/ or
\* tags/, and no list has two records with the same name.
C26_CompleteShortNames ==
  Compared =>
    /\ Len(cmpOut.result.tags)
         = Cardinality({n \in CmpUnion : n[1] = "tags"})
    /\ Len(cmpOut.result.branches)
         = Cardinality({n \in CmpUnion : n[1] = "heads"})
    /\ \A n \in CmpUnion :
          \E r \in RecsFor(ListOf(n), PairOf(n)) :
             <<r.name>> = SubSeq(n, 2, Len(n))
    /\ \A list \in {cmpOut.result.branches, cmpOut.result.tags} :
          \A i, j \in 1..Len(list) : i # j => list[i].name # list[j].name

(***************************************************************************)
(* Properties of the verdict and of push(), over Spec.                     *)
(***************************************************************************)
Occurrences(seq, x) == Cardinality({i \in 1..Len(seq) : seq[i] = x})

OneIf(b) == IF b THEN 1 ELSE 0

\* C16: the errors of a status() result hold the behind message once if some
\* record is behind and not at all otherwise, the diverged message once if
\* some record is diverged and not at all otherwise, and never more than two
\* entries, however many records are behind or diverged.
C16_OneMessagePerClass ==
  HasLastStatus =>
    LET st == LastStatus
    IN  /\ Occurrences(st.errors, MsgBehind)
             = OneIf(RecordsWith(st, {"behind"}) # {})
        /\ Occurrences(st.errors, MsgDiverged)
             = OneIf(RecordsWith(st, {"diverged"}) # {})
        /\ Len(st.errors) <= 2

C16_Witness ==
  /\ HasLastStatus
  /\ Cardinality(RecordsWith(LastStatus, {"behind"})) = 2
  /\ LastStatus.errors = <<MsgBehind>>

\* a push() that its status blocked
BlockedPush == last.op = "push" /\ last.statusCalled /\ ~last.st.canPush

\* C17: the error of a push() blocked by its status holds the message of
\* every blocking class the status found, both messages when there are
\* behind and diverged records; a push() that succeeds has no error.
C17_BlockedPushReportsEveryClass ==
  /\ BlockedPush =>
       /\ ~last.success
       /\ RecordsWith(last.st, {"behind"}) # {}
            => MsgBehind \in SeqRange(last.error)
       /\ RecordsWith(last.st, {"diverged"}) # {}
            => MsgDiverged \in SeqRange(last.error)
  /\ (last.op = "push" /\ last.success) => "error" \notin DOMAIN last

C17_Witness ==
  /\ BlockedPush
  /\ RecordsWith(last.st, {"behind"}) # {}
  /\ RecordsWith(last.st, {"diverged"}) # {}
  /\ last.error = <<MsgBehind, Sep, MsgDiverged>>

\* a push() whose status found nothing blocking and nothing to push
UpToDatePush ==
  /\ last.op = "push" /\ last.statusCalled
  /\ last.st.canPush /\ ~last.st.hasChanges

\* the calls that talk to the private repository
TransportCalls == {"fetchRemote", "getRemoteRefs", "pushMirror"}

\* C18 as claimed: a push() with nothing to push returns success = true,
\* pushed = false and no error and has made no transport call; a blocked
\* push() returns success = false, pushed = false and an error.
C18_UpToDatePushNoTransport ==
  /\ UpToDatePush =>
       /\ last.success /\ ~last.pushed /\ "error" \notin DOMAIN last
       /\ SeqRange(last.steps) \cap TransportCalls = {}
  /\ BlockedPush =>
       ~last.success /\ ~last.pushed /\ "error" \in DOMAIN last

\* C18 as amended: a push() with nothing to push returns success = true,
\* pushed = false and no error, does not call pushMirror and leaves the
\* destination as it is, after the fetch and the tag listing of its status;
\* a blocked push() returns success = false, pushed = false and an error,
\* and does not call pushMirror either.
C18_UpToDatePushOnlyFetches ==
  [][/\ UpToDatePush' =>
          /\ last'.success /\ ~last'.pushed /\ "error" \notin DOMAIN last'
          /\ "pushMirror" \notin SeqRange(last'.steps)
          /\ {"fetchRemote", "getRemoteRefs"} \subseteq SeqRange(last'.steps)
          /\ dst' = dst
     /\ BlockedPush' =>
          /\ ~last'.success /\ ~last'.pushed
          /\ "error" \in DOMAIN last' /\ last'.error # <<>>
          /\ "pushMirror" \notin SeqRange(last'.steps)
          /\ dst' = dst
    ]_vars

C18_Witness ==
  /\ UpToDatePush /\ last.success /\ ~last.pushed /\ last.fetchOk
  /\ RecordsWith(last.st, {"same"}) # {}
  /\ DefaultBranch \in DOMAIN trk

Before(steps, a, b) ==
  \A i \in 1..Len(steps) :
     steps[i] = b => \E j \in 1..(i - 1) : steps[j] = a

\* C19: in every status() and push(), the fetch of the destination precedes
\* the reading of either inventory, both readings precede the
\* classification, the classification precedes the verdict, and a verdict
\* precedes every mirror push.
C19_VerdictBeforeMirrorPush ==
  last.op \in {"status", "push"} =>
    /\ Before(last.steps, "fetchRemote", "getLocalRefs")
    /\ Before(last.steps, "fetchRemote", "getRemoteRefs")
    /\ Before(last.steps, "getLocalRefs", "compareRefs")
    /\ Before(last.steps, "getRemoteRefs", "compareRefs")
    /\ Before(last.steps, "compareRefs", "verdict")
    /\ Before(last.steps, "verdict", "pushMirror")

\* C22: clean() leaves no clone (and changes nothing when there was none);
\* right after it status() reports not pulled with canPush false, pull()
\* returns isNew = true and push() fails as not pulled.
C22_CleanRemovesClone ==
  [][/\ last'.op = "clean" =>
          /\ ~exists' /\ ~remote' /\ loc' = EmptyMap /\ trk' = EmptyMap
          /\ dst' = dst
          /\ last'.removed = exists
          /\ ~exists => UNCHANGED <<exists, remote, loc, trk, dst>>
     /\ last.op = "clean" =>
          /\ last'.op = "status" =>
               /\ ~last'.result.pulled /\ ~last'.result.canPush
               /\ last'.result.errors = <<MsgNotPulled>>
          /\ last'.op = "pull" => last'.isNew
          /\ last'.op = "push" => ~last'.success /\ ~last'.statusCalled
    ]_vars

C22_Witness ==
  /\ last.op = "clean" /\ last.removed
  /\ ~exists /\ loc = EmptyMap
  /\ dst # EmptyMap

\* the notice commits in the history of commit c
NoticeCommits(c) == {a \in Anc(c) : IsNotice(a)}

\* the notice blocks in the README of commit c: addSourceNotice removes the
\* first block of the README it finds and prepends one
RECURSIVE NoticeBlocks(_)
NoticeBlocks(c) ==
  IF ~IsNotice(c) THEN 0
  ELSE LET before == NoticeBlocks(Parent(c))
       IN  (IF before > 0 THEN before - 1 ELSE 0) + 1

StatusStepNames ==
  {"fetchRemote", "getLocalRefs", "getRemoteRefs", "compareRefs", "verdict"}

C29_FailedFetchNotReported ==
  [][(last'.op = "status" /\ last'.result.pulled /\ ~last'.fetchOk) =>
       LET res == last'.result
       IN  /\ trk' = trk /\ loc' = loc
           /\ SeqRange(res.errors) \subseteq {MsgBehind, MsgDiverged}
           /\ res.canPush <=> RecordsWith(res, {"behind", "diverged"}) = {}
           /\ \A n \in DOMAIN loc :
                 n \notin DOMAIN getRemoteRefs(trk, last'.lsOk)
                   => ClassifiedAs(res, n, {"new"})
           /\ (trk = EmptyMap /\ ~last'.lsOk) =>
                 /\ Cardinality(RecordsWith(res, {"new"}))
                      = Cardinality(DOMAIN loc)
                 /\ RecordsWith(res, Statuses \ {"new"}) = {}
                 /\ res.canPush /\ res.errors = <<>>
    ]_vars

C29_Witness ==
  /\ last.op = "status" /\ last.result.pulled
  /\ ~last.fetchOk /\ ~last.lsOk
  /\ trk = EmptyMap
  /\ Cardinality(RecordsWith(last.result, {"new"})) = 2
  /\ DefaultBranch \in DOMAIN dst /\ DefaultBranch \in DOMAIN loc
  /\ StrictAncestor(loc[DefaultBranch], dst[DefaultBranch])
  /\ last.result.canPush /\ last.result.errors = <<>>

\* C30: in every status() result canPush is false exactly when errors is not
\* empty; the result for a repository that is not pulled is canPush false,
\* hasChanges false, errors = <<"Not pulled yet">> and no records; push() on
\* such a repository fails after repoExists alone and changes nothing.
C30_CanPushIffNoErrors ==
  [][/\ HasLastStatus' =>
          (LastStatus'.canPush = FALSE <=> LastStatus'.errors # <<>>)
     /\ (last'.op = "status" /\ ~exists) =>
          /\ ~last'.result.pulled
          /\ ~last'.result.canPush /\ ~last'.result.hasChanges
          /\ last'.result.errors = <<MsgNotPulled>>
          /\ last'.result.branches = <<>> /\ last'.result.tags = <<>>
     /\ (last'.op = "push" /\ ~exists) =>
          /\ ~last'.success /\ ~last'.pushed
          /\ "error" \in DOMAIN last'
          /\ last'.steps = <<"repoExists">>
          /\ UNCHANGED <<exists, remote, loc, trk, dst>>
    ]_vars

C30_Witness ==
  /\ last.op = "push" /\ ~exists
  /\ ~last.success /\ ~last.pushed /\ last.steps = <<"repoExists">>
  /\ dst # EmptyMap

(***************************************************************************)
(* Properties of the configuration, over SpecCfg.                          *)
(***************************************************************************)
\* C20: any two distinct entries of a configuration that loadConfig accepted
\* have different working directories.
C20_DisjointWorkingDirectories ==
  (cfgOut # Unused /\ "paths" \in DOMAIN cfgOut) =>
    \A i, j \in 1..Len(cfgOut.repos) :
       (i # j /\ cfgOut.repos[i] # cfgOut.repos[j])
         => cfgOut.paths[i] # cfgOut.paths[j]

NonEmptyString(value) == value.type = "string" /\ value.v # <<>>

HasReposArray(file) ==
  file.fileExists /\ "hasRepos" \in DOMAIN file /\ file.hasRepos

ValidEntry(repo) ==
  NonEmptyString(repo.name) /\ NonEmptyString(repo.public)
    /\ NonEmptyString(repo.private)

FirstFailingCheck(file) ==
  IF ~file.fileExists THEN "Config file not found"
  ELSE IF ~HasReposArray(file) THEN "Config must have a 'repos' array"
  ELSE LET i == CHOOSE k \in 1..Len(file.repos) :
                   /\ ~ValidEntry(file.repos[k])
                   /\ \A j \in 1..(k - 1) : ValidEntry(file.repos[j])
       IN  IF ~NonEmptyString(file.repos[i].name)
           THEN "Each repo must have a 'name' string"
           ELSE IF ~NonEmptyString(file.repos[i].public)
           THEN "Repo must have a 'public' URL"
           ELSE "Repo must have a 'private' URL"

\* C24: loadConfig returns the configuration exactly when the file exists,
\* has a repos array and every entry has a non-empty string name, public and
\* private; otherwise it throws the message of the first failing check, in
\* the order file missing, repos array, then per entry name, public, private.
C24_LoadConfigFirstFailingCheck ==
  cfgOut # Unused =>
    LET valid == /\ HasReposArray(cfgIn)
                 /\ \A i \in 1..Len(cfgIn.repos) : ValidEntry(cfgIn.repos[i])
    IN  /\ ~cfgOut.threw <=> valid
        /\ ~cfgOut.threw => cfgOut.repos = cfgIn.repos
        /\ cfgOut.threw => cfgOut.error = FirstFailingCheck(cfgIn)

(***************************************************************************)
(* Properties of the commands, over SpecCli.                               *)
(***************************************************************************)
CliPulls ==
  IF cli # Unused /\ cli.phase # "start" /\ cli.command = "pull"
       /\ "log" \in DOMAIN cli
  THEN {cli.log[i] : i \in 1..Len(cli.log)}
  ELSE {}

\* C21: pull() clones when no mirror exists and fetches from origin when one
\* does; isNew is true exactly when no mirror existed before the call; after
\* a successful pull the mirror exists and the URL of its remote "private"
\* is repo.private; when the clone or fetch fails the result is a failure
\* and the mirror and its private remote are as they were.
C21_PullClonesOrFetchesAndSetsPrivate ==
  \A e \in CliPulls :
     /\ e.calls[1] = IF e.before.exists THEN "fetchOrigin" ELSE "cloneMirror"
     /\ e.result.isNew = ~e.before.exists
     /\ e.result.success =>
           e.after.exists /\ e.after.url = e.repo.private
     /\ Len(e.calls) = 1 =>
           ~e.result.success /\ e.after = e.before

C21_Witness ==
  /\ \E e \in CliPulls :
        ~e.before.exists /\ e.result.success /\ e.result.isNew
  /\ \E e \in CliPulls :
        /\ Len(e.calls) = 1 /\ ~e.result.success
        /\ e.before.url \notin {NoUrl, e.repo.private}

\* C27: a pull or push command processes every selected repository once, in
\* configuration order, whatever the outcome of the ones before; at the
\* end the counters add up to the number of repositories and the exit code
\* is a failure exactly when one repository failed.
C27_EveryRepositoryProcessedOnce ==
  (cli # Unused /\ cli.phase = "exited" /\ cli.selected) =>
    /\ Len(cli.log) = Len(cli.repos)
    /\ \A i \in 1..Len(cli.log) : cli.log[i].repo = cli.repos[i]
    /\ cli.summary
    /\ cli.success + cli.pushed + cli.skipped + cli.failed = Len(cli.repos)
    /\ (cli.exitCode # 0) <=> (cli.failed > 0)

=============================================================================
